---- MODULE Spec2Model ----
(***************************************************************************)
(* A model of the readiness-driven socket reactor of networkManager.py:    *)
(* the networkSocket hierarchy (tcpServerSocket, tcpClientSocket,          *)
(* udpSocket, remoteClientSocket), the selector it registers handles with, *)
(* and networkManager (create_socket, close_socket, run_once, shutdown),   *)
(* with the EventHandlers list and the constructors a caller uses to set   *)
(* the sockets up.  Where networkSocket.py, the earlier draft of the same  *)
(* classes, differs in a method a property is about, that method is        *)
(* modelled next to its successor under a legacy_ name.                    *)
(*                                                                         *)
(* Every public method is one action.  A method body is an operator on a   *)
(* record `st` that carries the mutable program state together with the    *)
(* exception in flight (err), the handler invocations made so far (fired)  *)
(* and the calls made on the OS or on other objects (calls).  Once err is  *)
(* set the remaining statements of the method are skipped, as a Python     *)
(* exception skips them; what was assigned before the raise stays.         *)
(***************************************************************************)
EXTENDS Integers, Sequences, FiniteSets, TLC

\* ------------------------------------------------------------------ bounds
MaxClients == 2     \* remoteClientSocket objects that can exist
MaxHandles == 6     \* OS socket handles that can be allocated at one time
MaxSockets == 3     \* length of networkManager._sockets
MaxEvents == 2      \* readiness events returned by one selector.select()
MaxCalls == 2       \* method calls made in one run
MaxCallbacks == 3   \* distinct callables a caller subscribes
MaxSetupCalls == 5  \* constructor and EventHandlers calls made in one set-up

\* ----------------------------------------------------------------- objects
None == 0
Handles == 1..MaxHandles

srv == [kind |-> "tcpServerSocket", id |-> 0]
cli == [kind |-> "tcpClientSocket", id |-> 0]
udp == [kind |-> "udpSocket", id |-> 0]
Client(i) == [kind |-> "remoteClientSocket", id |-> i]

Top == {srv, cli, udp}
Conn == {Client(i) : i \in 1..MaxClients}
Obj == Top \cup Conn

IsClientObj(o) == o.kind = "remoteClientSocket"

\* an EventHandlers object the caller builds, and the callables it subscribes
handlerSet == [kind |-> "EventHandlers", id |-> 0]
Callbacks == 1..MaxCallbacks

\* remoteClientSocket._parent_socket: the socket whose accept_connection built it
Parent(c) == srv

VARIABLES
    sock,         \* networkSocket._sock of every object (None: no handle)
    clients,      \* networkSocket._clients of every top-level socket
    handlers,     \* whether the three handler attributes of the object exist
    isConnected,  \* networkSocket.isConnected
    addr,         \* which of boundAddress / remoteAddress are not None
    caps,         \* canSend, canReceive and canAccept of every object
    eventHandlers,\* the items of the EventHandlers list handlerSet
    born,         \* remoteClientSocket objects that are referenced
    reg,          \* handles in the selector's map
    openH,        \* OS handles that are open
    sockets,      \* networkManager._sockets
    last,         \* the last call: its method, receiver, outcome and effects
    ncalls        \* the number of method calls made so far

vars == <<sock, clients, handlers, isConnected, addr, caps, eventHandlers, born,
          reg, openH, sockets, last, ncalls>>

\* ------------------------------------------------------------ payloads
\* Bytes are sequences of byte values, text is a sequence of characters.
PingBytes == <<112, 105>>
BadBytes == <<255>>

Chr(b) == IF b = 112 THEN "p" ELSE IF b = 105 THEN "i" ELSE "?"

\* bytes.decode("utf-8"): a byte of 0x80 and above that starts no valid
\* sequence makes the decode raise
Malformed(data) == \E i \in 1..Len(data) : data[i] >= 128
Decode(data) == [i \in 1..Len(data) |-> Chr(data[i])]

\* what a recv() on a readable handle can give
RecvOutcomes == {"data", "bad", "eof", "err"}
RecvBytes(outcome) ==
    IF outcome = "data" THEN PingBytes
    ELSE IF outcome = "bad" THEN BadBytes
    ELSE <<>>

\* ------------------------------------------------- the state of one call
S0 == [sock |-> sock, clients |-> clients, handlers |-> handlers,
       born |-> born, reg |-> reg, openH |-> openH,
       err |-> "none", ret |-> "none", fired |-> <<>>, calls |-> <<>>]

Ok(st) == st.err = "none"
Raise(st, e) == [st EXCEPT !.err = e]
Called(st, fn, o, h) == [st EXCEPT !.calls = Append(@, [fn |-> fn, obj |-> o, h |-> h])]

InUse(st) == st.openH \cup st.reg \cup {st.sock[o] : o \in Obj}
Free(st) == Handles \ InUse(st)
\* socket.socket(...) and accept() give a handle that no live object holds
FreshHandle(st) == CHOOSE h \in Free(st) : \A g \in Free(st) : h <= g
FreshClient(st) == CHOOSE c \in Conn \ st.born : \A d \in Conn \ st.born : c.id <= d.id

\* capability flags, fixed by each constructor
canSend(o) == caps[o].canSend
canReceive(o) == caps[o].canReceive
canAccept(o) == caps[o].canAccept
HasBoundAddress(o) ==
    IF o = srv THEN TRUE
    ELSE IF o = cli THEN addr.cliBound
    ELSE IF o = udp THEN addr.udpBound
    ELSE FALSE

\* ------------------------------------------------------- EventHandlers
\* list.remove and the membership test of a Python list
RemoveFirst(s, x) ==
    LET i == CHOOSE k \in 1..Len(s) : s[k] = x /\ \A j \in 1..(k - 1) : s[j] # x
    IN  SubSeq(s, 1, i - 1) \o SubSeq(s, i + 1, Len(s))
InSeq(s, x) == \E k \in 1..Len(s) : s[k] = x

\* a listen that lost its membership test: it appends whatever it is given
listen_always_appends(items, handler) ==
    [items |-> Append(items, handler), ret |-> "True", err |-> "none"]

\* EventHandlers.listen on the list items
EventHandlers_listen(items, handler) ==
    IF ~(\E i \in 1..Len(items) : items[i] = handler)
    THEN [items |-> Append(items, handler), ret |-> "True", err |-> "none"]
    ELSE [items |-> items, ret |-> "False", err |-> "none"]

\* EventHandlers.unlisten: list.remove raises ValueError when nothing equals
EventHandlers_unlisten(items, handler) ==
    IF InSeq(items, handler)
    THEN [items |-> RemoveFirst(items, handler), ret |-> "none", err |-> "none"]
    ELSE [items |-> items, ret |-> "none", err |-> "ValueError"]

\* EventHandlers.execute: the for loop over the list; a handler of `raising`
\* raises when called, which ends the loop and leaves execute
RECURSIVE execute_loop(_, _, _, _)
execute_loop(items, arg, raising, r) ==
    IF items = <<>> \/ r.err # "none" THEN r
    ELSE LET handler == Head(items)
             r1 == [r EXCEPT !.fired = Append(@, [handler |-> handler, arg |-> arg])]
         IN  execute_loop(Tail(items), arg, raising,
                          IF handler \in raising THEN [r1 EXCEPT !.err = "HandlerError"]
                          ELSE r1)

EventHandlers_execute(items, arg, raising) ==
    execute_loop(items, arg, raising, [fired |-> <<>>, ret |-> "none", err |-> "none"])

\* connected_handler, disconnected_handler and receive_handler are only
\* annotated in __init__: reading one the caller has not assigned raises
\* AttributeError.  An assigned set holds one subscriber, which execute calls.
\* (handlers[o] says whether the caller assigned the three sets of o.)
execute(st, o, event, arg) ==
    IF ~st.handlers[o] THEN Raise(st, "AttributeError")
    ELSE [st EXCEPT !.fired = Append(@, [obj |-> o, event |-> event, arg |-> arg])]

_handle_connect(st, o) == execute(st, o, "connected", <<>>)
_handle_disconnect(st, o) == execute(st, o, "disconnected", <<>>)
_handle_receive(st, o, data) ==
    IF Malformed(data) THEN Raise(st, "UnicodeDecodeError")
    ELSE execute(st, o, "receive", Decode(data))

\* ------------------------------------------------------------ selector
\* selector.register(h, EVENT_READ), called from a method of o
selector_register(st, o, h) ==
    LET st1 == Called(st, "register", o, h)
    IN  IF h \in st.reg THEN Raise(st1, "KeyError")
        ELSE [st1 EXCEPT !.reg = @ \cup {h}]

selector_unregister(st, h) ==
    IF h \notin st.reg THEN Raise(st, "KeyError")
    ELSE [st EXCEPT !.reg = @ \ {h}]

\* ------------------------------------------------------- networkSocket
create_socket(st, o) ==
    IF st.sock[o] = None THEN Raise(st, "InvalidOperation")
    ELSE LET h == FreshHandle(st)
         IN  [st EXCEPT !.sock[o] = h, !.openH = @ \cup {h}]

send_data_raw(st, o, data, sendOk) ==
    IF st.sock[o] = None THEN Raise(st, "InvalidOperation")
    ELSE IF ~canSend(o) THEN Raise(st, "InvalidOperation")
    ELSE LET st1 == Called(st, "sendall", o, st.sock[o])
         IN  IF sendOk THEN st1 ELSE Raise(st1, "OSError")

\* networkSocket.py, the earlier draft of the same class: no handle check, so
\* a socket without a handle reaches self._sock.sendall on None
legacy_send_data_raw(st, o, data, sendOk) ==
    IF ~canSend(o) THEN Raise(st, "InvalidOperation")
    ELSE IF st.sock[o] = None THEN Raise(st, "AttributeError")
    ELSE LET st1 == Called(st, "sendall", o, st.sock[o])
         IN  IF sendOk THEN st1 ELSE Raise(st1, "OSError")

register_to_selector(st, o) ==
    IF st.sock[o] = None THEN Raise(st, "InvalidOperation")
    ELSE selector_register(st, o, st.sock[o])

\* networkSocket.close
close_base(st, o, withSelector) ==
    LET h == st.sock[o]
        st0 == Called(st, "close", o, h)
        st1 == IF h = None THEN st0
               ELSE LET u == IF withSelector THEN selector_unregister(st0, h) ELSE st0
                    IN  IF Ok(u) THEN [u EXCEPT !.openH = @ \ {h}, !.sock[o] = None]
                        ELSE u
    IN  IF Ok(st1) THEN _handle_disconnect(st1, o) ELSE st1

\* remoteClientSocket.close, and close as dispatched on the receiver's class
close(st, o, withSelector) ==
    IF IsClientObj(o)
    THEN LET st1 == close_base(st, o, withSelector)
             p == Parent(o)
         IN  IF ~Ok(st1) THEN st1
             ELSE IF ~InSeq(st1.clients[p], o) THEN Raise(st1, "ValueError")
             ELSE [st1 EXCEPT !.clients[p] = RemoveFirst(@, o)]
    ELSE close_base(st, o, withSelector)

\* the OS calls whose outcome the environment decides
bind(st, o, bindOk) ==
    LET st1 == Called(st, "bind", o, st.sock[o])
    IN  IF bindOk THEN st1 ELSE Raise(st1, "OSError")

\* listen() on a SOCK_DGRAM handle is refused by the OS
listen(st, o) ==
    LET st1 == Called(st, "listen", o, st.sock[o])
    IN  IF o = udp THEN Raise(st1, "OSError") ELSE st1

\* tcpServerSocket.open
tcpServerSocket_open(st, o, bindOk) ==
    IF st.sock[o] = None THEN Raise(st, "InvalidOperation")
    ELSE LET st1 == create_socket(st, o)
             st2 == IF Ok(st1) THEN bind(st1, o, bindOk) ELSE st1
             st3 == IF Ok(st2) THEN listen(st2, o) ELSE st2
         IN  IF Ok(st3) THEN _handle_connect(st3, o) ELSE st3

\* tcpClientSocket.open: a failed connect is returned, not raised
tcpClientSocket_open(st, o, bindOk, connectOk) ==
    IF st.sock[o] = None THEN Raise(st, "InvalidOperation")
    ELSE LET st1 == create_socket(st, o)
             st2 == IF Ok(st1) /\ HasBoundAddress(o) THEN bind(st1, o, bindOk) ELSE st1
             st3 == IF Ok(st2) THEN Called(st2, "connect", o, st2.sock[o]) ELSE st2
         IN  IF ~Ok(st3) THEN st3
             ELSE IF ~connectOk THEN [st3 EXCEPT !.ret = "exception"]
             ELSE _handle_connect(st3, o)

\* udpSocket.open
udpSocket_open(st, o, bindOk) ==
    IF st.sock[o] = None THEN Raise(st, "InvalidOperation")
    ELSE LET st1 == create_socket(st, o)
         IN  IF Ok(st1) /\ HasBoundAddress(o)
             THEN LET st2 == bind(st1, o, bindOk)
                  IN  IF Ok(st2) THEN listen(st2, o) ELSE st2
             ELSE st1

\* networkSocket.py: createSocket asks self._socketIsOpen(), and the class
\* defines only socketIsOpen, so the attribute lookup raises
legacy_createSocket(st, o) == Raise(st, "AttributeError")

\* networkSocket.py: _handle_connect loops over a list __init__ created
legacy_handle_connect(st, o) ==
    IF st.handlers[o]
    THEN [st EXCEPT !.fired = Append(@, [obj |-> o, event |-> "connected", arg |-> <<>>])]
    ELSE st

\* networkSocket.py: tcpClientSocket.open
legacy_tcpClientSocket_open(st, o, bindOk, connectOk) ==
    LET st1 == legacy_createSocket(st, o)
        st2 == IF Ok(st1) /\ HasBoundAddress(o) THEN bind(st1, o, bindOk) ELSE st1
        st3 == IF Ok(st2) THEN Called(st2, "connect", o, st2.sock[o]) ELSE st2
    IN  IF ~Ok(st3) THEN st3
        ELSE IF ~connectOk THEN [st3 EXCEPT !.ret = "exception"]
        ELSE legacy_handle_connect(st3, o)

\* open as dispatched on the receiver's class; remoteClientSocket inherits
\* networkSocket.open, which always raises
open(st, o, bindOk, connectOk) ==
    IF o = srv THEN tcpServerSocket_open(st, o, bindOk)
    ELSE IF o = cli THEN tcpClientSocket_open(st, o, bindOk, connectOk)
    ELSE IF o = udp THEN udpSocket_open(st, o, bindOk)
    ELSE Raise(st, "InvalidOperation")

\* remoteClientSocket.__init__ on the handle accept() returned
remoteClientSocket_init(st, c, conn) ==
    [st EXCEPT !.sock[c] = conn, !.handlers[c] = FALSE]

accept_connection(st, o, acceptOk) ==
    IF ~canAccept(o) THEN Raise(st, "InvalidOperation")
    ELSE IF st.sock[o] = None THEN Raise(st, "InvalidOperation")
    ELSE LET st1 == Called(st, "accept", o, st.sock[o])
         IN  IF ~acceptOk THEN Raise(st1, "OSError")
             ELSE LET conn == FreshHandle(st1)
                      c == FreshClient(st1)
                      st2 == remoteClientSocket_init(
                                 [st1 EXCEPT !.openH = @ \cup {conn}], c, conn)
                      st3 == register_to_selector(st2, c)
                      st4 == IF Ok(st3) THEN selector_register(st3, o, conn) ELSE st3
                  IN  IF Ok(st4)
                      THEN [st4 EXCEPT !.clients[o] = Append(@, c),
                                       !.born = @ \cup {c}]
                      \* the exception leaves remoteSocket unreferenced; the
                      \* selector still holds conn, which stays open
                      ELSE [st4 EXCEPT !.sock[c] = None]

\* socket.recv: a bytes object, b"" at end of stream, never None
recv(outcome) == [isNone |-> FALSE, bytes |-> RecvBytes(outcome)]

process_data_event(st, o, maskRead, isClient, outcome, bindOk, connectOk) ==
    IF st.sock[o] = None THEN Raise(st, "InvalidOperation")
    ELSE IF ~maskRead THEN st
    ELSE LET st1 == Called(st, "recv", o, st.sock[o])
         IN  IF outcome = "err"
             THEN IF isClient THEN close(st1, o, TRUE)
                  ELSE LET c1 == close(st1, o, TRUE)
                           c2 == IF Ok(c1) THEN create_socket(c1, o) ELSE c1
                       IN  IF Ok(c2) THEN open(c2, o, bindOk, connectOk) ELSE c2
             ELSE LET received_data == recv(outcome)
                  IN  IF ~received_data.isNone
                      THEN _handle_receive(st1, o, received_data.bytes)
                      ELSE close(st1, o, TRUE)

\* ------------------------------------------------------ networkManager
is_this_socket(st, o, h) == st.sock[o] # None /\ st.sock[o] = h
is_client_of_this_socket(st, o, h) ==
    \E k \in 1..Len(st.clients[o]) : st.sock[st.clients[o][k]] = h

NotFound == [found |-> FALSE, sockInfo |-> srv, isClient |-> FALSE]

RECURSIVE find_from(_, _, _, _)
find_from(st, socks, h, i) ==
    IF i > Len(socks) THEN NotFound
    ELSE IF is_this_socket(st, socks[i], h)
         THEN [found |-> TRUE, sockInfo |-> socks[i], isClient |-> FALSE]
    ELSE IF is_client_of_this_socket(st, socks[i], h)
         THEN [found |-> TRUE, sockInfo |-> socks[i], isClient |-> TRUE]
    ELSE find_from(st, socks, h, i + 1)

_find_sock_info(st, socks, h) == find_from(st, socks, h, 1)

\* key.data of a readiness event: every selector.register call passes no
\* data, so the key carries None
key_data(h) == None

\* the body of run_once's loop for one (key, mask); mask is EVENT_READ, the
\* only event a handle is registered for
dispatch(st, socks, ev) ==
    LET r == _find_sock_info(st, socks, ev.h)
    IN  IF ~r.found THEN Called(st, "warn", srv, ev.h)
        ELSE IF canAccept(r.sockInfo) /\ key_data(ev.h) = None
             THEN accept_connection(Called(st, "accept_connection", r.sockInfo, ev.h),
                                    r.sockInfo, ev.acceptOk)
        ELSE process_data_event(Called(st, "process_data_event", r.sockInfo, ev.h),
                                r.sockInfo, TRUE, r.isClient, ev.outcome, TRUE, TRUE)

RECURSIVE run_once(_, _, _)
run_once(st, socks, events) ==
    IF events = <<>> \/ ~Ok(st) THEN st
    ELSE run_once(dispatch(st, socks, Head(events)), socks, Tail(events))

RECURSIVE shutdown(_, _)
shutdown(st, socks) ==
    IF socks = <<>> \/ ~Ok(st) THEN st
    ELSE shutdown(close(st, Head(socks), TRUE), Tail(socks))

\* ------------------------------------------------------------- actions
\* a readiness event: the ready handle, what a recv() on the socket that is
\* read will give, and whether an accept() on the listener finds a connection
Event(h, outcome, acceptOk) == [h |-> h, outcome |-> outcome, acceptOk |-> acceptOk]

Live == Top \cup born

Room(n) == Cardinality(Free(S0)) >= n /\ Cardinality(Conn \ born) >= n

Commit(r, op, o, input) ==
    /\ ncalls < MaxCalls
    /\ ncalls' = ncalls + 1
    /\ sock' = r.sock
    /\ clients' = r.clients
    /\ handlers' = r.handlers
    /\ born' = r.born
    /\ reg' = r.reg
    /\ openH' = r.openH
    /\ last' = [op |-> op, obj |-> o, input |-> input, err |-> r.err,
                ret |-> r.ret, fired |-> r.fired, calls |-> r.calls]
    /\ UNCHANGED <<isConnected, addr, caps, eventHandlers>>

Open(o) ==
    /\ Room(1)
    /\ \E bindOk \in BOOLEAN, connectOk \in BOOLEAN :
           Commit(open(S0, o, bindOk, connectOk), "open", o, <<bindOk, connectOk>>)
    /\ UNCHANGED sockets

\* tcpClientSocket.open of networkSocket.py
LegacyOpen(o) ==
    /\ \E bindOk \in BOOLEAN, connectOk \in BOOLEAN :
           Commit(legacy_tcpClientSocket_open(S0, o, bindOk, connectOk),
                  "legacy_open", o, <<bindOk, connectOk>>)
    /\ UNCHANGED sockets

CreateSocket(o) ==
    /\ Room(1)
    /\ Commit(create_socket(S0, o), "create_socket", o, <<>>)
    /\ UNCHANGED sockets

SendDataRaw(o) ==
    /\ \E sendOk \in BOOLEAN :
           Commit(send_data_raw(S0, o, PingBytes, sendOk), "send_data_raw", o, <<>>)
    /\ UNCHANGED sockets

\* send_data_raw of networkSocket.py
LegacySendDataRaw(o) ==
    /\ \E sendOk \in BOOLEAN :
           Commit(legacy_send_data_raw(S0, o, PingBytes, sendOk),
                  "legacy_send_data_raw", o, <<>>)
    /\ UNCHANGED sockets

AcceptConnection(o) ==
    /\ Room(1)
    /\ \E acceptOk \in BOOLEAN :
           Commit(accept_connection(S0, o, acceptOk), "accept_connection", o,
                  <<Event(sock[o], "data", acceptOk)>>)
    /\ UNCHANGED sockets

ProcessDataEvent(o) ==
    /\ Room(1)
    /\ \E maskRead \in BOOLEAN, isClient \in BOOLEAN, outcome \in RecvOutcomes :
           Commit(process_data_event(S0, o, maskRead, isClient, outcome, TRUE, TRUE),
                  IF isClient THEN "process_data_event_client" ELSE "process_data_event",
                  o,
                  IF maskRead THEN <<Event(sock[o], outcome, TRUE)>> ELSE <<>>)
    /\ UNCHANGED sockets

\* close(None), called on the socket itself
Close(o) ==
    /\ Commit(close(S0, o, FALSE), "close", o, <<>>)
    /\ UNCHANGED sockets

\* networkManager.create_socket
ManagerCreateSocket(o) ==
    /\ Len(sockets) < MaxSockets
    /\ sockets' = Append(sockets, o)
    /\ Commit(register_to_selector(S0, o), "mgr_create_socket", o, <<>>)

\* networkManager.close_socket
CloseSocket(o) ==
    /\ Commit(close(S0, o, TRUE), "close_socket", o, <<>>)
    /\ UNCHANGED sockets

\* selector.select() returns the ready handles among the registered ones
Ready == reg \cap openH
EventLists ==
    UNION {[1..n -> [h : Ready, outcome : RecvOutcomes, acceptOk : BOOLEAN]] :
              n \in 1..MaxEvents}
Distinct(evs) == \A i, j \in 1..Len(evs) : i # j => evs[i].h # evs[j].h

RunOnce ==
    /\ \E evs \in EventLists :
           /\ Distinct(evs)
           /\ Room(Len(evs))
           /\ Commit(run_once(S0, sockets, evs), "run_once", srv, evs)
    /\ UNCHANGED sockets

Shutdown ==
    /\ Commit(shutdown(S0, sockets), "shutdown", srv, <<>>)
    /\ UNCHANGED sockets

\* ---------------------------------------------------------- construction
\* networkSocket.__init__ stores the three capability flags it is given
networkSocket_init(cs, cr, ca) == [canSend |-> cs, canReceive |-> cr, canAccept |-> ca]

tcpServerSocket_init == networkSocket_init(TRUE, TRUE, TRUE)
tcpClientSocket_init == networkSocket_init(TRUE, TRUE, FALSE)
\* the flags remoteClientSocket.__init__ passes up
remoteClientSocket_flags == networkSocket_init(TRUE, TRUE, FALSE)

\* a udpSocket constructor that lost its argument check
udpSocket_init_unchecked(remoteAddress, boundAddress) ==
    [err |-> "none", remoteAddress |-> remoteAddress, boundAddress |-> boundAddress,
     flags |-> networkSocket_init(remoteAddress, boundAddress, FALSE)]

\* udpSocket.__init__; an address argument is TRUE when it is not None
udpSocket_init(remoteAddress, boundAddress) ==
    IF ~remoteAddress /\ ~boundAddress
    THEN [err |-> "ValueError", remoteAddress |-> FALSE, boundAddress |-> FALSE,
          flags |-> networkSocket_init(FALSE, FALSE, FALSE)]
    ELSE [err |-> "none", remoteAddress |-> remoteAddress, boundAddress |-> boundAddress,
          flags |-> networkSocket_init(remoteAddress, boundAddress, FALSE)]

\* udpSocket.__init__ of networkSocket.py
legacy_udpSocket_init(remoteAddress, boundAddress) ==
    IF ~remoteAddress /\ ~boundAddress
    THEN [err |-> "ValueError", remoteAddress |-> FALSE, boundAddress |-> FALSE,
          flags |-> networkSocket_init(FALSE, FALSE, FALSE)]
    ELSE [err |-> "none", remoteAddress |-> remoteAddress, boundAddress |-> boundAddress,
          flags |-> networkSocket_init(remoteAddress, boundAddress, FALSE)]

\* the flags of every object as its constructor set them
Constructed(a) ==
    [o \in Obj |->
        IF o = srv THEN tcpServerSocket_init
        ELSE IF o = cli THEN tcpClientSocket_init
        ELSE IF o = udp THEN udpSocket_init(a.udpRemote, a.udpBound).flags
        ELSE remoteClientSocket_flags]

\* the constructor arguments: udpSocket needs one of its two addresses, and
\* tcpClientSocket is given a boundAddress in the runs where udpSocket is
AddrConfigs ==
    {a \in [udpRemote : BOOLEAN, udpBound : BOOLEAN, cliBound : BOOLEAN] :
        (a.udpRemote \/ a.udpBound) /\ a.cliBound = a.udpBound}

\* the handler sets are the caller's to assign: it assigns them on all the
\* sockets it constructed or on none, and likewise on the accepted
\* connections it holds
Wirings(cs) ==
    {[o \in Obj |-> IF o \in Top THEN t ELSE IF o \in cs THEN c ELSE FALSE] :
        t \in BOOLEAN, c \in BOOLEAN}

NoCall == [op |-> "init", obj |-> srv, input |-> <<>>, err |-> "none", ret |-> "none",
           fired |-> <<>>, calls |-> <<>>]

\* the state after the constructors have run
Init ==
    /\ sock = [o \in Obj |-> None]
    /\ clients = [t \in Top |-> <<>>]
    /\ handlers \in Wirings({})
    /\ isConnected = [o \in Obj |-> FALSE]
    /\ addr \in AddrConfigs
    /\ caps = Constructed(addr)
    /\ eventHandlers = <<>>
    /\ born = {}
    /\ reg = {}
    /\ openH = {}
    /\ sockets = <<>>
    /\ last = NoCall
    /\ ncalls = 0

Calls ==
    \/ \E o \in Live : Open(o)
    \/ LegacyOpen(cli)
    \/ \E o \in Live : CreateSocket(o)
    \/ \E o \in Live : SendDataRaw(o)
    \/ \E o \in Top : LegacySendDataRaw(o)
    \/ \E o \in Live : AcceptConnection(o)
    \/ \E o \in Live : ProcessDataEvent(o)
    \/ \E o \in Live : Close(o)
    \/ \E o \in Top : ManagerCreateSocket(o)
    \/ \E o \in Live : CloseSocket(o)
    \/ Shutdown

Next == Calls \/ RunOnce

\* The program as its own methods can drive it: no top-level socket ever gets
\* a handle, nothing is registered, and select() never returns.
Spec == Init /\ [][Calls]_vars

\* ------------------------------------------------------ handles in place
\* open() and create_socket() cannot give a socket its first handle, and
\* accept_connection cannot reach its append.  The code after those points
\* runs only on objects whose fields the caller has set itself (_sock of a
\* top-level socket, a remoteClientSocket put into _clients).  InitOpen draws
\* such objects: any subset of the top-level sockets holds an open handle,
\* and the listener owns up to MaxClients - 1 accepted connections, each with
\* an open handle that is registered, as accept_connection registers it.
InitHandle(o) ==
    IF o = srv THEN 1 ELSE IF o = cli THEN 2 ELSE IF o = udp THEN 3 ELSE 3 + o.id

InitOpen ==
    /\ \E present \in SUBSET Top, n \in 0..(MaxClients - 1) :
          LET cs == {Client(i) : i \in 1..n}
          IN  /\ sock = [o \in Obj |->
                            IF o \in present \cup cs THEN InitHandle(o) ELSE None]
              /\ clients = [t \in Top |->
                            IF t = srv THEN [i \in 1..n |-> Client(i)] ELSE <<>>]
              /\ born = cs
              /\ reg = {InitHandle(c) : c \in cs}
              /\ openH = {InitHandle(o) : o \in present \cup cs}
              /\ handlers \in Wirings(cs)
    /\ isConnected = [o \in Obj |-> FALSE]
    /\ addr \in AddrConfigs
    /\ caps = Constructed(addr)
    /\ eventHandlers = <<>>
    /\ sockets = <<>>
    /\ last = NoCall
    /\ ncalls = 0

SpecOpen == InitOpen /\ [][Next]_vars

\* ------------------------------------------------------------------ set-up
\* What a caller does before it hands sockets to the manager: it constructs
\* them, and it builds the EventHandlers lists it assigns to them.
Setup(op, o, input, r) ==
    /\ ncalls < MaxSetupCalls
    /\ ncalls' = ncalls + 1
    /\ last' = [op |-> op, obj |-> o, input |-> input, err |-> r.err, ret |-> r.ret,
                fired |-> r.fired, calls |-> <<>>]
    /\ UNCHANGED <<sock, clients, handlers, isConnected, born, reg, openH, sockets>>

Listen(handler) ==
    LET r == EventHandlers_listen(eventHandlers, handler)
    IN  /\ eventHandlers' = r.items
        /\ Setup("listen", handlerSet, <<handler>>, 
                  [err |-> r.err, ret |-> r.ret, fired |-> <<>>])
        /\ UNCHANGED <<addr, caps>>

Unlisten(handler) ==
    LET r == EventHandlers_unlisten(eventHandlers, handler)
    IN  /\ eventHandlers' = r.items
        /\ Setup("unlisten", handlerSet, <<handler>>, 
                  [err |-> r.err, ret |-> r.ret, fired |-> <<>>])
        /\ UNCHANGED <<addr, caps>>

\* execute(arg) with at most one subscribed callable that raises
Execute ==
    \E raising \in {{}} \cup {{h} : h \in Callbacks} :
        /\ Setup("execute", handlerSet, <<Decode(PingBytes), raising>>,
                 EventHandlers_execute(eventHandlers, Decode(PingBytes), raising))
        /\ UNCHANGED <<addr, caps, eventHandlers>>

\* udp = udpSocket(remoteAddress, boundAddress, name): on success the new
\* object replaces the one the caller held
Construct(op, r, input) ==
    /\ Setup(op, udp, input, [err |-> r.err, ret |-> "none", fired |-> <<>>])
    /\ addr' = IF r.err = "none"
               THEN [addr EXCEPT !.udpRemote = r.remoteAddress, !.udpBound = r.boundAddress]
               ELSE addr
    /\ caps' = IF r.err = "none" THEN [caps EXCEPT ![udp] = r.flags] ELSE caps
    /\ UNCHANGED eventHandlers

UdpSocketInit(remoteAddress, boundAddress) ==
    Construct("udpSocket_init", udpSocket_init(remoteAddress, boundAddress),
              <<remoteAddress, boundAddress>>)

LegacyUdpSocketInit(remoteAddress, boundAddress) ==
    Construct("legacy_udpSocket_init", legacy_udpSocket_init(remoteAddress, boundAddress),
              <<remoteAddress, boundAddress>>)

NextSetup ==
    \/ \E handler \in Callbacks : Listen(handler)
    \/ \E handler \in Callbacks : Unlisten(handler)
    \/ Execute
    \/ \E remoteAddress \in BOOLEAN, boundAddress \in BOOLEAN :
           UdpSocketInit(remoteAddress, boundAddress)
    \/ \E remoteAddress \in BOOLEAN, boundAddress \in BOOLEAN :
           LegacyUdpSocketInit(remoteAddress, boundAddress)

SpecSetup == Init /\ [][NextSetup]_vars

\* ------------------------------------------------------------ properties
\* a step that is one call of method op on object o
Step(op, o) == ncalls' = ncalls + 1 /\ last'.op = op /\ last'.obj = o

CountFired(l, o, event) ==
    Cardinality({i \in 1..Len(l.fired) : l.fired[i].obj = o /\ l.fired[i].event = event})
CallsOf(l, fn) == {i \in 1..Len(l.calls) : l.calls[i].fn = fn}

Managed(t) == InSeq(sockets, t) /\ sock[t] # None /\ sock[t] \in reg
OpenClient(c) ==
    /\ c \in born /\ InSeq(clients[Parent(c)], c)
    /\ sock[c] # None /\ sock[c] \in reg /\ sock[c] \in openH

\* C1: registering a freshly constructed top-level socket with the manager
\* fails with InvalidOperation, and registering it after one call of its
\* open() succeeds and leaves its handle registered with the selector.
C1_RegisterOrdering ==
    [][\A t \in Top :
          Step("mgr_create_socket", t) =>
              /\ ncalls = 0 => last'.err = "InvalidOperation"
              /\ (ncalls = 1 /\ last.op = "open" /\ last.obj = t) =>
                     /\ last'.err = "none"
                     /\ sock'[t] # None
                     /\ sock'[t] \in reg']_vars

\* C2: accept_connection on an open, accept-capable listener with a pending
\* connection completes, and the listener's client collection then holds
\* exactly one new remoteClientSocket, whose handle is non-null, registered
\* and different from the listener's.
C2_AcceptAddsClient ==
    [][\A o \in Top :
          ( /\ Step("accept_connection", o)
            /\ canAccept(o) /\ sock[o] # None
            /\ last'.input = <<Event(sock[o], "data", TRUE)>> ) =>
              /\ last'.err = "none"
              /\ Len(clients'[o]) = Len(clients[o]) + 1
              /\ SubSeq(clients'[o], 1, Len(clients[o])) = clients[o]
              /\ LET c == clients'[o][Len(clients'[o])]
                 IN  /\ c \notin born
                     /\ sock'[c] # None
                     /\ sock'[c] \in reg'
                     /\ sock'[c] # sock'[o]]_vars

\* C3: with the listener open and registered and a connection accepted, a
\* readiness event for the connection's handle carrying a non-empty payload
\* makes run_once read that handle and fire the connection's data-received
\* handlers with the connection and the decoded text; no accept is
\* attempted and the listener's own handle is not read.
C3_DataDelivered ==
    [][\A c \in Conn :
          ( /\ Step("run_once", srv)
            /\ OpenClient(c) /\ handlers[c] /\ Managed(srv)
            /\ \E a \in BOOLEAN : last'.input = <<Event(sock[c], "data", a)>> ) =>
              /\ last'.err = "none"
              /\ last'.fired = <<[obj |-> c, event |-> "receive", arg |-> <<"p", "i">>]>>
              /\ CallsOf(last', "accept") = {}
              /\ CallsOf(last', "recv") # {}
              /\ \A i \in CallsOf(last', "recv") : last'.calls[i].h = sock[c]]_vars

\* C4: when process_data_event reads zero bytes on an open socket, top-level
\* or accepted, the socket is closed: its handle is absent and unregistered,
\* its disconnected handlers fired exactly once, its data-received handlers
\* did not fire, it is not reopened, and an accepted connection is removed
\* from its listener's client collection.
C4_ZeroLengthReadCloses ==
    [][\A o \in Live :
          ( /\ Step("process_data_event", o) \/ Step("process_data_event_client", o)
            /\ sock[o] # None /\ sock[o] \in reg /\ handlers[o]
            /\ IsClientObj(o) => OpenClient(o)
            /\ last'.input = <<Event(sock[o], "eof", TRUE)>> ) =>
              /\ sock'[o] = None
              /\ sock[o] \notin reg'
              /\ CountFired(last', o, "disconnected") = 1
              /\ CountFired(last', o, "receive") = 0
              /\ CountFired(last', o, "connected") = 0
              /\ IsClientObj(o) => ~InSeq(clients'[Parent(o)], o)]_vars

\* C5: when the read of process_data_event fails on a top-level socket
\* (isClient false), the socket is closed, recreated and reopened within the
\* call: its disconnected handlers fire once, then its connected handlers
\* fire, and its handle is non-null when the call returns.
C5_SelfHealing ==
    [][\A t \in Top :
          ( /\ Step("process_data_event", t)
            /\ sock[t] # None /\ sock[t] \in reg /\ handlers[t]
            /\ last'.input = <<Event(sock[t], "err", TRUE)>> ) =>
              /\ CountFired(last', t, "disconnected") = 1
              /\ \E i, j \in 1..Len(last'.fired) :
                    /\ i < j
                    /\ last'.fired[i] = [obj |-> t, event |-> "disconnected", arg |-> <<>>]
                    /\ last'.fired[j] = [obj |-> t, event |-> "connected", arg |-> <<>>]
              /\ sock'[t] # None]_vars

\* C6: when a read fails on the handle of an accepted connection, the
\* connection is closed for good: its disconnected handlers fire exactly
\* once, it leaves its listener's client collection, its handle stays absent
\* in every later state, and the listener's own handle stays open and
\* registered.
C6_ClientReadFailureCloses ==
    [][\A c \in Conn :
          /\ ( /\ \/ Step("run_once", srv) /\ InSeq(sockets, srv)
                  \/ Step("process_data_event_client", c)
               /\ OpenClient(c) /\ handlers[c]
               /\ sock[srv] # None /\ sock[srv] \in reg /\ sock[srv] \in openH
               /\ \E a \in BOOLEAN : last'.input = <<Event(sock[c], "err", a)>> ) =>
                 /\ sock'[c] = None
                 /\ CountFired(last', c, "disconnected") = 1
                 /\ ~InSeq(clients'[srv], c)
                 /\ sock'[srv] = sock[srv]
                 /\ sock[srv] \in reg' /\ sock[srv] \in openH'
          /\ (c \in born /\ sock[c] = None /\ ~InSeq(clients[srv], c)) =>
                 sock'[c] = None]_vars

\* C7: closing an accepted connection twice in a row removes it from its
\* owner's client collection once; the second call completes without error
\* and leaves the collection and every socket as the first call left them.
C7_CloseTwice ==
    [][\A c \in Conn :
          ( /\ Step("close_socket", c) \/ Step("close", c)
            /\ last.op \in {"close_socket", "close"} /\ last.obj = c
            /\ last.err = "none" ) =>
              /\ last'.err = "none"
              /\ clients' = clients
              /\ sock' = sock
              /\ reg' = reg
              /\ openH' = openH]_vars

\* C8: send_data_raw fails with InvalidOperation, writing nothing and
\* changing no state, whenever the handle is absent or canSend is false; it
\* attempts the write only when the handle is present and canSend is true.
C8_SendRawGuard ==
    [][\A o \in Live :
          (Step("send_data_raw", o) \/ Step("legacy_send_data_raw", o)) =>
              IF sock[o] = None \/ ~canSend(o)
              THEN /\ last'.err = "InvalidOperation"
                   /\ last'.calls = <<>>
                   /\ UNCHANGED <<sock, clients, handlers, born, reg, openH, sockets>>
              ELSE last'.calls = <<[fn |-> "sendall", obj |-> o, h |-> sock[o]]>>]_vars

\* C9: after shutdown() returns, every socket of the managed list and every
\* accepted connection owned by one of them has an absent handle, every
\* listener's client collection is empty, and none of their handles is
\* still registered with the selector.
C9_ShutdownClosesAll ==
    [][( /\ Step("shutdown", srv) /\ last'.err = "none"
         /\ \A i \in 1..Len(sockets) : Managed(sockets[i]) ) =>
          \A i \in 1..Len(sockets) :
              LET t == sockets[i]
              IN  /\ sock'[t] = None
                  /\ sock[t] # None => sock[t] \notin reg'
                  /\ clients'[t] = <<>>
                  /\ \A k \in 1..Len(clients[t]) :
                        LET c == clients[t][k]
                        IN  /\ sock'[c] = None
                            /\ sock[c] # None => sock[c] \notin reg']_vars

\* C10: no readiness event makes run_once raise: a failed read, a failed
\* accept, an unresolved handle or undecodable bytes are absorbed, run_once
\* returns normally and the loop of run_forever goes on.
C10_RunOnceAbsorbsErrors ==
    [][(Step("run_once", srv) /\ \A o \in Live : handlers[o]) =>
          last'.err = "none"]_vars

\* C11: through any sequence of listen and unlisten calls the EventHandlers
\* list never holds two equal handlers; listen returns True exactly when it
\* appended the handler and False, changing nothing, when an equal one was
\* present; unlisten keeps the order of the others; and an execute that
\* returns has called every current subscriber once, in subscription order.
C11_IdempotentSubscription ==
    [][/\ \A i, j \in 1..Len(eventHandlers') :
              i # j => eventHandlers'[i] # eventHandlers'[j]
       /\ \A h \in Callbacks :
              /\ (Step("listen", handlerSet) /\ last'.input = <<h>>) =>
                     /\ last'.ret = IF InSeq(eventHandlers, h) THEN "False" ELSE "True"
                     /\ eventHandlers' = IF InSeq(eventHandlers, h) THEN eventHandlers
                                         ELSE Append(eventHandlers, h)
              /\ (Step("unlisten", handlerSet) /\ last'.input = <<h>>
                                               /\ last'.err = "none") =>
                     eventHandlers' = SelectSeq(eventHandlers, LAMBDA x : x # h)
       /\ (Step("execute", handlerSet) /\ last'.err = "none") =>
              last'.fired = [i \in 1..Len(eventHandlers) |->
                                [handler |-> eventHandlers[i], arg |-> last'.input[1]]]
      ]_vars

\* a duplicate listen was refused on a list of several subscribers
C11_Witness ==
    /\ last.op = "listen" /\ last.ret = "False"
    /\ Len(eventHandlers) >= 2
    /\ InSeq(eventHandlers, last.input[1])

\* C12: for each of the four combinations of remoteAddress and boundAddress
\* being given or None, the udpSocket constructor raises ValueError exactly
\* when both are None; otherwise it returns an object whose canSend says
\* whether remoteAddress was given, whose canReceive says whether
\* boundAddress was given, and whose canAccept is false.
C12_UdpConstructor ==
    [][\A r \in BOOLEAN, b \in BOOLEAN :
          ( /\ Step("udpSocket_init", udp) \/ Step("legacy_udpSocket_init", udp)
            /\ last'.input = <<r, b>> ) =>
              IF ~r /\ ~b
              THEN last'.err = "ValueError"
              ELSE /\ last'.err = "none"
                   /\ caps'[udp].canSend = r
                   /\ caps'[udp].canReceive = b
                   /\ caps'[udp].canAccept = FALSE]_vars

\* the constructor was called with neither address and refused
C12_Witness ==
    /\ last.op = "udpSocket_init" /\ last.input = <<FALSE, FALSE>>
    /\ last.err = "ValueError"

\* the operations the registration invariant is stated over
ReactorOps == {"open", "mgr_create_socket", "accept_connection", "run_once",
               "close_socket", "shutdown"}
\* the sockets the manager answers for: its list and their accepted connections
ManagedObjs(socks, cl) ==
    {socks[i] : i \in 1..Len(socks)} \cup
    UNION {{cl[socks[i]][k] : k \in 1..Len(cl[socks[i]])} : i \in 1..Len(socks)}
HandleIffRegistered(socks, cl, sk, rg) ==
    \A o \in ManagedObjs(socks, cl) : sk[o] # None <=> sk[o] \in rg
\* the call ended in the selector refusing a handle it already holds
RegisteredTwice(l) ==
    /\ l.err = "KeyError"
    /\ l.calls # <<>>
    /\ l.calls[Len(l.calls)].fn = "register"

\* C13: open, the manager's create_socket, accept_connection, run_once,
\* close_socket and shutdown never submit to the selector a handle it
\* already holds, and they keep the invariant that every managed socket
\* (one of the manager's list, or an accepted connection of one) has a
\* handle if and only if that handle is registered.
C13_RegistrationInvariant ==
    [][( /\ ncalls' = ncalls + 1
         /\ last'.op \in ReactorOps
         /\ HandleIffRegistered(sockets, clients, sock, reg) ) =>
          /\ ~RegisteredTwice(last')
          /\ HandleIffRegistered(sockets', clients', sock', reg')]_vars

\* C14: in run_once over open, registered managed sockets, accept_connection
\* is called only for a ready handle that is an accept-capable managed
\* socket's own handle; a ready handle of
\* an accepted connection is given to data-event handling and never makes
\* run_once call accept_connection on the connection's listener.
C14_DispatchRule ==
    [][(Step("run_once", srv) /\ \A n \in 1..Len(sockets) : Managed(sockets[n])) =>
          /\ \A i \in CallsOf(last', "accept_connection") :
                 LET call == last'.calls[i]
                 IN  canAccept(call.obj) /\ call.h = sock[call.obj]
          /\ \A c \in Conn, k \in 1..Len(last'.input) :
                 ( /\ OpenClient(c) /\ Managed(Parent(c))
                   /\ last'.input[k].h = sock[c]
                   /\ \A j \in 1..(k - 1) : last'.input[j].h # sock[Parent(c)] ) =>
                     /\ \E i \in CallsOf(last', "process_data_event") :
                            last'.calls[i].h = sock[c]
                     /\ \A i \in CallsOf(last', "accept_connection") :
                            last'.calls[i].h # sock[c]]_vars

\* C15: open() on a freshly constructed tcpServerSocket, with handlers
\* assigned and a bind and listen that succeed, completes without error,
\* leaves the socket with a handle, and fires its connected handlers
\* exactly once.
C15_ServerOpenFresh ==
    [][( /\ Step("open", srv)
         /\ sock[srv] = None /\ handlers[srv]
         /\ last'.input[1] ) =>
          /\ last'.err = "none"
          /\ sock'[srv] # None
          /\ CountFired(last', srv, "connected") = 1]_vars

\* C16: on every kind of socket, create_socket and open() called while the
\* socket has a handle fail with InvalidOperation and leave that handle in
\* place: it is not replaced, and no new handle is allocated.
C16_NoSecondHandle ==
    [][\A o \in Live :
          ((Step("create_socket", o) \/ Step("open", o)) /\ sock[o] # None) =>
              /\ last'.err = "InvalidOperation"
              /\ sock'[o] = sock[o]
              /\ openH' = openH]_vars

\* C17: close() on a socket that has no handle fires no handler and changes
\* no socket, client collection or selector state; and whenever close()
\* fires the disconnected handlers of a socket, it has closed a handle of
\* that socket, which is by then absent from the socket and unregistered.
C17_CloseWithoutHandle ==
    [][\A o \in Live :
          (Step("close", o) \/ Step("close_socket", o)) =>
              /\ sock[o] = None =>
                     /\ last'.fired = <<>>
                     /\ UNCHANGED <<sock, clients, born, reg, openH, sockets>>
              /\ CountFired(last', o, "disconnected") > 0 =>
                     /\ sock[o] # None
                     /\ sock'[o] = None
                     /\ sock[o] \notin reg'
                     /\ sock[o] \notin openH']_vars

\* C18: tcpClientSocket.open(), with handlers assigned and any bind
\* succeeding: when the connect fails, open raises nothing, returns the
\* failure and fires no connected handler; when the connect succeeds, open
\* raises nothing, returns no failure and fires the connected handlers
\* exactly once.
C18_ConnectFailureReturned ==
    [][( /\ Step("open", cli) \/ Step("legacy_open", cli)
         /\ handlers[cli]
         /\ last'.input[1] ) =>
          /\ last'.err = "none"
          /\ IF last'.input[2]
             THEN last'.ret = "none" /\ CountFired(last', cli, "connected") = 1
             ELSE last'.ret = "exception" /\ CountFired(last', cli, "connected") = 0]_vars

\* C19: isConnected follows the lifecycle of a tcpServerSocket or
\* tcpClientSocket: it is true after an open() that succeeded (listening
\* started, or the connect went through), false after a close, and false
\* while the socket has never been opened.
C19_IsConnectedTracks ==
    [][\A o \in {srv, cli} :
          /\ (Step("open", o) /\ last'.err = "none" /\ last'.ret = "none") =>
                 isConnected'[o]
          /\ ((Step("close", o) \/ Step("close_socket", o)) /\ last'.err = "none") =>
                 ~isConnected'[o]
          /\ ncalls = 0 => ~isConnected[o]]_vars

\* every registered handle resolves to a socket the manager answers for
NoOrphans == \A h \in reg : _find_sock_info(S0, sockets, h).found

\* C20: the reactor's operations, also when they fail part-way, keep every
\* registered handle resolvable by _find_sock_info to a socket of the
\* manager's list or to an accepted connection of one, and the manager's
\* create_socket adds a socket to the list only when its registration
\* succeeded.
C20_NoOrphanRegistrations ==
    [][(ncalls' = ncalls + 1 /\ last'.op \in ReactorOps /\ NoOrphans) =>
          /\ NoOrphans'
          /\ \A t \in Top :
                 (Step("mgr_create_socket", t) /\ last'.err # "none") =>
                     sockets' = sockets]_vars

====
